---- MODULE Spec2Model ----
(***************************************************************************)
(* A model of app.py of swanpeter/freedomstandard: the response payload    *)
(* extractor collect_image_bytes (a breadth-first search over a response   *)
(* graph of Python values) and the Streamlit session around it (login,     *)
(* generation, upscale, storage upload, history rendering).                *)
(*                                                                         *)
(* Python values are records with a field "kind".  Immutable leaves (None, *)
(* bytes, bytearray, str, int) are carried by value; mappings, records     *)
(* (objects with attributes) and sequences live in a heap and are referred *)
(* to by identity (kind "ref"), so that a container can contain itself.    *)
(* Text is a sequence of code points, binary data a sequence of 0..255.    *)
(***************************************************************************)
EXTENDS Integers, Sequences, FiniteSets, TLC

VARIABLES
    \* ---- one call of collect_image_bytes ----
    heap,         \* the containers of the response graph, by identity
    response,     \* the argument of collect_image_bytes
    queue,        \* the work list `queue`
    visited,      \* the set `visited` of container identities
    status,       \* "running", "returned" (return reached) or "raised"
    result,       \* the returned value (NoneV until a payload is returned)
    qdepth,       \* for each queue item, its number of hops from the response
    curDepth,     \* hops of the item popped by the last iteration
    foundDepth,   \* hops of the payload that was returned
    expanded,     \* how often each container went past the visited check
    textLog,      \* the stripped text candidates met, and whether decoding was tried
    popped,       \* how many items were popped so far
    \* ---- one Streamlit session ----
    config,       \* the deployment's secrets / environment
    authenticated,\* st.session_state["authenticated"]
    history,      \* st.session_state.history
    pc,           \* "idle" between script runs, "render" inside render_history
    cursor,       \* position of the list iterator of render_history
    imageId,      \* the local image_id of render_history (0: not yet bound)
    clicked,      \* the widget key of the button that triggered this run
    keys,         \* the widget keys emitted so far in this run
    nextId,       \* the next fresh uuid
    calls,        \* calls to the external services made by the current run
    lastOp        \* what the last step did: its kind, its inputs, its messages

extractVars == <<heap, response, queue, visited, status, result, qdepth,
                 curDepth, foundDepth, expanded, textLog, popped>>
sessionVars == <<config, authenticated, history, pc, cursor, imageId, clicked,
                 keys, nextId, calls, lastOp>>
vars == <<extractVars, sessionVars>>

----------------------------------------------------------------------------
(* Python values *)

NoneV == [kind |-> "none"]
BytesV(b) == [kind |-> "bytes", val |-> b]
ByteArrayV(b) == [kind |-> "bytearray", val |-> b]
StrV(s) == [kind |-> "str", val |-> s]
IntV(n) == [kind |-> "int", val |-> <<n>>]
Ref(n) == [kind |-> "ref", id |-> n]

Item(k, v) == [key |-> k, value |-> v]
DictC(items) == [kind |-> "dict", items |-> items]
ObjC(items) == [kind |-> "obj", items |-> items]
ListC(values) == [kind |-> "list",
                  items |-> [i \in 1..Len(values) |-> Item("", values[i])]]

IsBinary(v) == v.kind \in {"bytes", "bytearray"}

----------------------------------------------------------------------------
(* Text and base64 *)

\* What str.strip() removes.
Whitespace == {9, 10, 11, 12, 13, 28, 29, 30, 31, 32}

RECURSIVE LStrip(_)
LStrip(s) == IF s # <<>> /\ Head(s) \in Whitespace THEN LStrip(Tail(s)) ELSE s

RECURSIVE RStrip(_)
RStrip(s) ==
    IF s # <<>> /\ s[Len(s)] \in Whitespace
    THEN RStrip(SubSeq(s, 1, Len(s) - 1)) ELSE s

Strip(s) == RStrip(LStrip(s))

\* The code points of the standard base64 alphabet, and "=".
IsB64Data(c) ==
    \/ c \in 65..90 \/ c \in 97..122 \/ c \in 48..57 \/ c = 43 \/ c = 47
PadChar == 61

B64Value(c) ==
    CASE c \in 65..90 -> c - 65
      [] c \in 97..122 -> c - 97 + 26
      [] c \in 48..57 -> c - 48 + 52
      [] c = 43 -> 62
      [] OTHER -> 63

B64Char(v) ==
    CASE v \in 0..25 -> v + 65
      [] v \in 26..51 -> v - 26 + 97
      [] v \in 52..61 -> v - 52 + 48
      [] v = 62 -> 43
      [] OTHER -> 47

\* base64.b64encode: three bytes to four characters, "=" padded.
B64Encode(b) ==
    LET n == Len(b)
        At(i) == IF i <= n THEN b[i] ELSE 0
        Ch(j) ==
            LET k == 3 * ((j - 1) \div 4)
                pos == (j - 1) % 4
            IN CASE pos = 0 -> B64Char(At(k + 1) \div 4)
                 [] pos = 1 -> B64Char((At(k + 1) % 4) * 16 + At(k + 2) \div 16)
                 [] pos = 2 -> IF k + 2 > n THEN PadChar
                               ELSE B64Char((At(k + 2) % 16) * 4 + At(k + 3) \div 64)
                 [] OTHER -> IF k + 3 > n THEN PadChar ELSE B64Char(At(k + 3) % 64)
    IN [j \in 1..(4 * ((n + 2) \div 3)) |-> Ch(j)]

\* binascii.a2b_base64 in its default (non-strict) mode, as b64decode uses
\* it.  Characters outside the alphabet are skipped.  A "=" met after two
\* or three characters of a quad counts as padding, and the padding that
\* completes the quad ends the decoding (the rest is ignored); any other
\* "=" is skipped.  Input that ends inside a quad is an error.
DataBefore(s, i) == Cardinality({j \in 1..(i - 1) : IsB64Data(s[j])})

\* the "=" since the last alphabet character, up to position i
PadsAt(s, i) ==
    Cardinality({j \in 1..i :
        s[j] = PadChar /\ \A m \in (j + 1)..i : ~IsB64Data(s[m])})

PadCompletes(quad, pads) == quad >= 2 /\ quad + pads >= 4

\* the positions at which a "=" would end the decoding
PadStops(s) ==
    {i \in 1..Len(s) :
        s[i] = PadChar /\ PadCompletes(DataBefore(s, i) % 4, PadsAt(s, i))}

MinOf(S) == CHOOSE i \in S : \A j \in S : i <= j

DecodedByte(data, m) ==
    LET k == 4 * ((m - 1) \div 3)
        r == (m - 1) % 3
    IN CASE r = 0 -> B64Value(data[k + 1]) * 4 + B64Value(data[k + 2]) \div 16
         [] r = 1 -> (B64Value(data[k + 2]) % 16) * 16 + B64Value(data[k + 3]) \div 4
         [] OTHER -> (B64Value(data[k + 3]) % 4) * 64 + B64Value(data[k + 4])

\* the bytes of n alphabet characters: three for a quad, one or two for a
\* padded rest of two or three characters
DecodedLen(n) == 3 * (n \div 4) + (IF n % 4 = 0 THEN 0 ELSE (n % 4) - 1)

DecodeQuads(data, stopped) ==
    IF ~stopped /\ Len(data) % 4 # 0 THEN [err |-> TRUE, bytes |-> <<>>]
    ELSE [err |-> FALSE,
          bytes |-> [m \in 1..DecodedLen(Len(data)) |-> DecodedByte(data, m)]]

A2BUpTo(s, stops) ==
    DecodeQuads(SelectSeq(SubSeq(s, 1, IF stops = {} THEN Len(s) ELSE MinOf(stops)),
                          IsB64Data),
                stops # {})

A2B(s) == A2BUpTo(s, PadStops(s))

\* base64.b64decode(str): a str is encoded as ASCII first (ValueError on a
\* code point above 127), then handed to a2b_base64.
B64Decode(s) ==
    IF \E i \in 1..Len(s) : s[i] > 127
    THEN [err |-> TRUE, bytes |-> <<>>]
    ELSE A2B(s)

----------------------------------------------------------------------------
(* Accessors on the response graph h (a sequence of containers) *)

HasKey(items, k) == \E i \in 1..Len(items) : items[i].key = k

Lookup(items, k) ==
    IF HasKey(items, k)
    THEN items[CHOOSE i \in 1..Len(items) : items[i].key = k].value
    ELSE NoneV

IsDict(h, v) == v.kind = "ref" /\ h[v.id].kind = "dict"
IsList(h, v) == v.kind = "ref" /\ h[v.id].kind = "list"

\* getattr(v, name, None): only records carry the attributes looked up here.
GetAttr(h, v, name) ==
    IF v.kind = "ref" /\ h[v.id].kind = "obj" THEN Lookup(h[v.id].items, name)
    ELSE NoneV

\* v.get(name) of a dict
DictGet(h, v, name) == Lookup(h[v.id].items, name)

\* `if x:` on a value of the graph h
TruthyIn(h, v) ==
    CASE v.kind \in {"bytes", "bytearray", "str"} -> v.val # <<>>
      [] v.kind = "int" -> v.val # <<0>>
      [] v.kind = "ref" -> h[v.id].kind = "obj" \/ h[v.id].items # <<>>
      [] OTHER -> FALSE

RaiseV == [kind |-> "raise"]

\* A decode_image_data that lets the decoding error escape.
DecodeImageData_NoCatch(data) ==
    CASE data.kind = "none" -> NoneV
      [] data.kind = "bytes" -> data
      [] data.kind = "str" ->
            LET r == B64Decode(data.val) IN
            IF r.err THEN RaiseV ELSE BytesV(r.bytes)
      [] OTHER -> NoneV

\* A decode_image_data that hands back the text itself when decoding fails.
DecodeImageData_RawOnError(data) ==
    CASE data.kind = "none" -> NoneV
      [] data.kind = "bytes" -> data
      [] data.kind = "str" ->
            LET r == B64Decode(data.val) IN
            IF r.err THEN BytesV(data.val) ELSE BytesV(r.bytes)
      [] OTHER -> NoneV

\* A decode_image_data that reads the text as URL-safe base64 ("-" and "_"
\* for "+" and "/"), so that "+" and "/" are skipped as foreign characters.
DecodeImageData_UrlSafe(data) ==
    CASE data.kind = "none" -> NoneV
      [] data.kind = "bytes" -> data
      [] data.kind = "str" ->
            LET kept == SelectSeq(data.val, LAMBDA c : c # 43 /\ c # 47)
                r == B64Decode(kept) IN
            IF r.err THEN NoneV ELSE BytesV(r.bytes)
      [] OTHER -> NoneV

DecodeImageData(data) ==
    CASE data.kind = "none" -> NoneV
      [] data.kind = "bytes" -> data
      [] data.kind = "str" ->
            LET r == B64Decode(data.val) IN
            IF r.err THEN NoneV ELSE BytesV(r.bytes)
      [] OTHER -> NoneV

\* handle_inline
HandleInline(h, container) ==
    IF container.kind = "none" THEN NoneV
    ELSE DecodeImageData(
             IF GetAttr(h, container, "data").kind = "none" /\ IsDict(h, container)
             THEN DictGet(h, container, "data")
             ELSE GetAttr(h, container, "data"))

\* `if decoded: return decoded` (an escaping exception passes through)
IfTruthy(h, decoded) ==
    IF decoded.kind = "raise" \/ TruthyIn(h, decoded) THEN decoded ELSE NoneV

\* v.data, or v["data"] when v is a dict without that attribute
DataOf(h, v, byAttr) ==
    IF byAttr.kind = "none" /\ IsDict(h, v) THEN DictGet(h, v, "data") ELSE byAttr

FileDataOf(h, v, byAttr) ==
    IF byAttr.kind = "none" /\ IsDict(h, v) THEN DictGet(h, v, "file_data") ELSE byAttr

MaybeFileDataIn(h, file_data) ==
    IF TruthyIn(h, file_data)
    THEN IfTruthy(h, DecodeImageData(DataOf(h, file_data, GetAttr(h, file_data, "data"))))
    ELSE NoneV

\* maybe_file_data
MaybeFileData(h, container) ==
    IF container.kind = "none" THEN NoneV
    ELSE MaybeFileDataIn(h, FileDataOf(h, container, GetAttr(h, container, "file_data")))

\* base64_charset: the alphabet, "=", "\n" and "\r"
\* A charset that holds every ASCII whitespace character.
InBase64Charset_AnyWhitespace(c) == IsB64Data(c) \/ c = PadChar \/ c \in Whitespace

InBase64Charset(c) == IsB64Data(c) \/ c = PadChar \/ c = 10 \/ c = 13

Base64MinLen == 80

\* The length test with >= for >.
LooksLikeBase64_AtLeast(candidate) ==
    /\ Len(candidate) >= Base64MinLen
    /\ \A i \in 1..Len(candidate) : InBase64Charset(candidate[i])

\* len(candidate) > 80 and set(candidate) <= base64_charset
LooksLikeBase64(candidate) ==
    /\ Len(candidate) > Base64MinLen
    /\ \A i \in 1..Len(candidate) : InBase64Charset(candidate[i])

\* The keys of a dict whose value is decoded directly.
DirectKeys == {"data", "image", "blob"}

\* The attributes of a record that are enqueued, in the order of the code.
ContainerAttrs ==
    <<"candidates", "content", "parts", "generated_content", "contents",
      "responses", "messages", "media", "image", "images">>

----------------------------------------------------------------------------
(* collect_image_bytes: the state of one call and one pass of its loop *)

\* The state after lines 237-241.
StartState(h, resp) ==
    [queue      |-> IF resp.kind = "none" THEN <<>> ELSE <<resp>>,
     visited    |-> {},
     status     |-> "running",
     result     |-> NoneV,
     qdepth     |-> IF resp.kind = "none" THEN <<>> ELSE <<0>>,
     curDepth   |-> 0,
     foundDepth |-> 0,
     expanded   |-> [n \in 1..Len(h) |-> 0],
     textLog    |-> {},
     popped     |-> 0]

Remove(q, i) == SubSeq(q, 1, i - 1) \o SubSeq(q, i + 1, Len(q))

\* A pop() that takes the newest item, where the code takes the oldest.
PopAt_Last(q) == Len(q)

\* queue.pop(0)
PopAt(q) == 1

\* A visited check that never finds anything.
AlreadyVisited_Never(seen, id) == FALSE

\* obj_id in visited
AlreadyVisited(seen, id) == id \in seen

Return(s, payload, depth) ==
    [s EXCEPT !.status = "returned", !.result = payload, !.foundDepth = depth]

Raise(s) == [s EXCEPT !.status = "raised"]

\* decoded is the value of a decoding call: return it when it is truthy,
\* pass an escaping exception on, go on with `rest` otherwise.
OrElse(h, s, decoded, depth, rest) ==
    IF decoded.kind = "raise" THEN Raise(s)
    ELSE IF TruthyIn(h, decoded) THEN Return(s, decoded, depth)
    ELSE rest

Enqueue(s, values) ==
    [s EXCEPT !.queue = s.queue \o values,
              !.qdepth = s.qdepth \o [i \in 1..Len(values) |-> s.curDepth + 1]]

Values(items) == [i \in 1..Len(items) |-> items[i].value]

\* A binary branch that returns whatever it popped, empty or not.
PopBinary_AnyBytes(s, current) == Return(s, BytesV(current.val), s.curDepth)

\* Lines 273-282: bytes, bytearray, memoryview
PopBinary(s, current) ==
    IF current.val # <<>> THEN Return(s, BytesV(current.val), s.curDepth) ELSE s

\* Lines 284-290: str
PopText(h, s, current) ==
    LET candidate == Strip(current.val)
        tried == LooksLikeBase64(candidate)
        logged == [s EXCEPT !.textLog =
                       s.textLog \cup {[cand |-> candidate, tried |-> tried]}]
    IN IF tried
       THEN OrElse(h, logged, DecodeImageData(StrV(candidate)), s.curDepth, logged)
       ELSE logged

Decodes(h, decoded) == decoded.kind = "raise" \/ TruthyIn(h, decoded)

\* The first entry of the dict whose key is data, image or blob and whose
\* value decodes to something (or fails to decode); 0 when there is none.
FirstDirect(h, items) ==
    IF \E i \in 1..Len(items) :
          items[i].key \in DirectKeys /\ Decodes(h, DecodeImageData(items[i].value))
    THEN MinOf({i \in 1..Len(items) :
                  items[i].key \in DirectKeys
                  /\ Decodes(h, DecodeImageData(items[i].value))})
    ELSE 0

\* Lines 307-313: the entries of the dict, up to the first that decodes
ScanItems(h, s, items, hit) ==
    IF hit # 0
    THEN OrElse(h, s, DecodeImageData(items[hit].value), s.curDepth + 1, s)
    ELSE Enqueue(s, Values(items))

\* Lines 297-313: a dict
ExpandDict(h, s, current) ==
    OrElse(h, s, HandleInline(h, DictGet(h, current, "inline_data")), s.curDepth + 2,
    OrElse(h, s, MaybeFileData(h, current), s.curDepth + 2,
    ScanItems(h, s, h[current.id].items, FirstDirect(h, h[current.id].items))))

\* An attribute loop that takes every attribute the record has.
AttrValues_All(h, current) ==
    IF current.kind = "ref" /\ h[current.id].kind = "obj"
    THEN SelectSeq(Values(h[current.id].items), LAMBDA v : v.kind # "none")
    ELSE <<>>

\* Lines 323-337: the attributes that are present, in the order of the code
AttrValues(h, current) ==
    LET all == [i \in 1..Len(ContainerAttrs) |-> GetAttr(h, current, ContainerAttrs[i])]
    IN SelectSeq(all, LAMBDA v : v.kind # "none")

\* Lines 315-340: anything else (a record, a sequence, a number, ...)
ExpandOther(h, s, current) ==
    LET inline == GetAttr(h, current, "inline_data")
        elems == IF IsList(h, current) THEN Values(h[current.id].items) ELSE <<>>
    IN OrElse(h, s, HandleInline(h, inline), s.curDepth + 2,
       OrElse(h, s, MaybeFileData(h, current), s.curDepth + 2,
       Enqueue(s, AttrValues(h, current) \o elems)))

\* One pass of `while queue:` (lines 268-340), or line 342 when the queue is
\* empty.  Numbers and other scalars have an identity too, but nothing is
\* reached through them, so only containers are recorded in visited.
Iteration(h, s) ==
    IF s.queue = <<>> THEN Return(s, NoneV, 0)
    ELSE
    LET at == PopAt(s.queue)
        current == s.queue[at]
        t == [s EXCEPT !.queue = Remove(s.queue, at),
                       !.qdepth = Remove(s.qdepth, at),
                       !.curDepth = s.qdepth[at],
                       !.popped = s.popped + 1]
    IN CASE current.kind = "none" -> t
         [] IsBinary(current) -> PopBinary(t, current)
         [] current.kind = "str" -> PopText(h, t, current)
         [] current.kind = "int" -> ExpandOther(h, t, current)
         [] OTHER ->
              IF AlreadyVisited(t.visited, current.id) THEN t
              ELSE LET u == [t EXCEPT !.visited = t.visited \cup {current.id},
                                      !.expanded[current.id] = @ + 1]
                   IN IF IsDict(h, current) THEN ExpandDict(h, u, current)
                      ELSE ExpandOther(h, u, current)

\* The whole call, for callers: passes of the loop until it returns or raises.
RECURSIVE RunLoop(_, _)
RunLoop(h, s) ==
    IF s.status # "running" THEN s
    ELSE RunLoop(h, Iteration(h, s))

\* collect_image_bytes(response)
CollectImageBytes(g) == RunLoop(g.heap, StartState(g.heap, g.response))

----------------------------------------------------------------------------
(* The responses the extractor is run on *)

\* Bounds of the sample responses.
PayloadLen == 3
MaxBytesLen == 4
LongGroups == 21

\* Byte values the sample payloads are made of.
ByteVals == {0, 65, 255}

P1 == <<137, 80, 78, 71>>
P2 == <<255, 216, 255>>
Payload3 == [i \in 1..PayloadLen |-> (i * 89) % 256]

\* n bytes, all different from their neighbours
Pattern(n) == [i \in 1..n |-> (i * 37 + 11) % 256]

\* Text of exactly Base64MinLen characters of valid base64, and its relatives.
Text80 == B64Encode(Pattern((Base64MinLen \div 4) * 3))
Text79 == SubSeq(Text80, 1, Base64MinLen - 1)
Text81 == SubSeq(Text80, 1, 40) \o <<10>> \o SubSeq(Text80, 41, Base64MinLen)
Text80Padded == <<32, 10>> \o Text80 \o <<9, 32>>
TextLong == B64Encode(Pattern(LongGroups * 3))
TextLongPadded == <<32>> \o TextLong \o <<10>>
TextLongBroken == TextLong \o <<65>>
TextLongSpaced == SubSeq(TextLong, 1, 40) \o <<32>> \o SubSeq(TextLong, 41, Len(TextLong))
TextLongTabbed == SubSeq(TextLong, 1, 40) \o <<9>> \o SubSeq(TextLong, 41, Len(TextLong))
TextLongForeign == SubSeq(TextLong, 1, 40) \o <<33>> \o SubSeq(TextLong, 41, Len(TextLong))
TextShortB64 == B64Encode(P1)
TextProse == <<104, 101, 108, 108, 111, 32, 119, 111, 114, 108, 100>>
TextAccent == <<233, 233, 233, 233>>
TextBlank == <<32, 10, 32>>

\* Leaves that are (or are not) payloads, as they occur in responses.
Leaves ==
    {NoneV, BytesV(<<>>), BytesV(P1), ByteArrayV(P2), ByteArrayV(<<>>),
     StrV(<<>>), StrV(TextBlank), StrV(TextProse), StrV(TextShortB64),
     StrV(TextAccent), IntV(7),
     StrV(Text79), StrV(Text80), StrV(Text81), StrV(Text80Padded),
     StrV(TextLong), StrV(TextLongPadded), StrV(TextLongBroken),
     StrV(TextLongSpaced), StrV(TextLongTabbed), StrV(TextLongForeign)}

\* The leaves at the end of a chain of containers.
ChainLeaves ==
    {BytesV(P1), BytesV(<<>>), StrV(TextShortB64), StrV(TextLong),
     StrV(TextLongBroken), NoneV}

Graph(h, r) == [heap |-> h, response |-> r]

Kinds == {"dict", "obj", "list"}

\* A response that is a leaf itself, or an empty container.
LeafGraphs ==
    {Graph(<<>>, v) : v \in Leaves}
    \cup {Graph(<<[kind |-> k, items |-> <<>>]>>, Ref(1)) : k \in Kinds}

Container(kind, items) ==
    IF kind = "list" THEN ListC(Values(items))
    ELSE [kind |-> kind, items |-> items]

\* One container holding two leaves.
KeyPairs ==
    {<<"data", "extra">>, <<"extra", "image">>, <<"inline_data", "file_data">>,
     <<"candidates", "content">>, <<"blob", "text">>, <<"images", "thumbnail">>}

PairGraphs ==
    {Graph(<<Container(k, <<Item(kp[1], v), Item(kp[2], w)>>)>>, Ref(1)) :
        k \in Kinds, kp \in KeyPairs, v \in Leaves, w \in Leaves}

\* A chain of three containers down to a leaf.  Each link is the kind of the
\* container and the key (or attribute) the next one hangs on; the root may
\* hold a second value before or after the chain, and the last container may
\* point back into the chain.
Links ==
    {<<"list", "">>, <<"dict", "candidates">>, <<"dict", "inline_data">>,
     <<"dict", "file_data">>, <<"dict", "data">>, <<"dict", "extra">>,
     <<"obj", "parts">>, <<"obj", "inline_data">>, <<"obj", "file_data">>,
     <<"obj", "data">>, <<"obj", "extra">>}

RootLinks ==
    {<<"list", "">>, <<"dict", "candidates">>, <<"obj", "parts">>,
     <<"dict", "extra">>}

Siblings == {BytesV(P2), StrV(Text81)}

ChainItems(link, value, before, after) ==
    (IF before.kind = "none" THEN <<>> ELSE <<Item("messages", before)>>)
    \o <<Item(link[2], value)>>
    \o (IF after.kind = "none" THEN <<>> ELSE <<Item("media", after)>>)

ChainGraph(l1, l2, l3, leaf, before, after, back) ==
    Graph(<<Container(l1[1], ChainItems(l1, Ref(2), before, after)),
            Container(l2[1], <<Item(l2[2], Ref(3))>>),
            Container(l3[1], ChainItems(l3, leaf, back, NoneV))>>,
          Ref(1))

ChainGraphs ==
    {ChainGraph(l1, l2, l3, leaf, NoneV, NoneV, NoneV) :
        l1 \in Links, l2 \in Links, l3 \in Links, leaf \in ChainLeaves}

\* The same with a payload beside the chain, at the root.
SiblingGraphs ==
    {ChainGraph(l1, l2, l3, leaf, sib[1], sib[2], NoneV) :
        l1 \in RootLinks, l2 \in Links, l3 \in Links,
        leaf \in {BytesV(P1), StrV(TextShortB64)},
        sib \in {<<x, NoneV>> : x \in Siblings} \cup {<<NoneV, x>> : x \in Siblings}}

\* The same with the last container pointing back into the chain.
CyclicGraphs ==
    {ChainGraph(l1, l2, l3, leaf, NoneV, NoneV, Ref(back)) :
        l1 \in RootLinks, l2 \in Links, l3 \in Links,
        leaf \in {BytesV(P1), NoneV}, back \in 1..3}

\* Containers that hold themselves directly, once or twice.
SelfGraphs ==
    {Graph(<<Container(k, <<Item("content", Ref(1)), Item("parts", v),
                            Item("media", Ref(1))>>)>>, Ref(1)) :
        k \in Kinds, v \in {NoneV, BytesV(P1), StrV(TextLong)}}

\* All byte strings of 1..MaxBytesLen sample bytes.
SampleBytes == UNION {[1..n -> ByteVals] : n \in 1..MaxBytesLen}

\* candidates -> content -> parts -> inline_data -> data, as mappings and
\* sequences (the JSON form) or as records (the SDK form); data is the
\* base64 text of b, or b itself.
InlineGraph(form, data) ==
    IF form = "dict" THEN
        Graph(<<DictC(<<Item("candidates", Ref(2))>>),
                ListC(<<Ref(3)>>),
                DictC(<<Item("content", Ref(4))>>),
                DictC(<<Item("parts", Ref(5))>>),
                ListC(<<Ref(6)>>),
                DictC(<<Item("inline_data", Ref(7))>>),
                DictC(<<Item("data", data)>>)>>, Ref(1))
    ELSE
        Graph(<<ObjC(<<Item("candidates", Ref(2)), Item("model_version", IntV(3))>>),
                ListC(<<Ref(3)>>),
                ObjC(<<Item("content", Ref(4)), Item("finish_reason", StrV(TextProse))>>),
                ObjC(<<Item("parts", Ref(5)), Item("role", StrV(TextProse))>>),
                ListC(<<Ref(6), Ref(8)>>),
                ObjC(<<Item("inline_data", Ref(7)), Item("text", NoneV)>>),
                ObjC(<<Item("data", data), Item("mime_type", StrV(TextProse))>>),
                ObjC(<<Item("inline_data", NoneV), Item("text", StrV(TextProse))>>)>>,
              Ref(1))

InlineGraphs ==
    {InlineGraph(form, StrV(B64Encode(b))) : form \in {"dict", "obj"}, b \in SampleBytes}
    \cup {InlineGraph(form, v) : form \in {"dict", "obj"},
            v \in {BytesV(Payload3), StrV(TextLong), StrV(TextLongBroken), NoneV,
                   StrV(<<>>), BytesV(<<>>)}}

----------------------------------------------------------------------------
(* The session: configuration, history entries, external services *)

MODEL_NAME == "models/gemini-3-pro-image-preview"
IMAGEN_MODEL_NAME == "imagegeneration@002"

\* Bounds of the session.
MaxHistory == 3

NoCalls == [generate |-> 0, upscale |-> 0, upload |-> 0]
NoKey == <<"", 0>>
NoRequest == [bytes |-> <<>>, factor |-> ""]
Op(kind, reports, request, extracted, upload) ==
    [op |-> kind, reports |-> reports, request |-> request,
     extracted |-> extracted, upload |-> upload]
NoOp == Op("none", <<>>, NoRequest, <<>>, "none")

\* get_configured_auth_credentials: the secrets' pair, or the built-in one.
Credentials == {<<"mezamashi", "mezamashi">>, <<"admin", "s3cret">>}

\* What the deployment's secrets and environment hold: the Vertex AI
\* project and region ("" when unset), the state of the storage settings,
\* the Gemini API key, the login credentials.
Configs ==
    [project_id : {"", "proj"}, region : {"", "us-central1"},
     storage : {"missing", "bad_json", "ok"}, api_key : {"", "key"},
     credentials : Credentials]

NoConfig ==
    [project_id |-> "", region |-> "", storage |-> "missing", api_key |-> "",
     credentials |-> <<"mezamashi", "mezamashi">>]

SessionAtRest ==
    /\ config = NoConfig
    /\ authenticated = FALSE
    /\ history = <<>>
    /\ pc = "idle"
    /\ cursor = 0
    /\ imageId = 0
    /\ clicked = NoKey
    /\ keys = <<>>
    /\ nextId = 1
    /\ calls = NoCalls
    /\ lastOp = NoOp

\* entry.get(...) of a history entry, with None read as empty / 0 / "".
ImageBytesOf(e) == IF "image_bytes" \in DOMAIN e THEN e.image_bytes ELSE <<>>
IdOf(e) == IF "id" \in DOMAIN e THEN e.id ELSE 0
PromptOf(e) == IF "prompt" \in DOMAIN e THEN e.prompt ELSE <<>>
AspectOf(e) == IF "aspect_ratio" \in DOMAIN e THEN e.aspect_ratio ELSE ""

\* Lines 940-948: the entry of a generated image.  Identifiers stand for
\* "img_" + uuid4().hex; n is the number of the uuid drawn.
GeneratedEntry(n, image_bytes, user_prompt, aspect_ratio, ref_used) ==
    [id |-> n, image_bytes |-> image_bytes, prompt |-> user_prompt,
     model |-> MODEL_NAME, no_text |-> TRUE, aspect_ratio |-> aspect_ratio,
     reference_used |-> ref_used]

\* An upscaled entry that names itself as its source.
UpscaledEntry_OwnSource(n, upscaled_bytes, entry, upscale_factor) ==
    [id |-> n, image_bytes |-> upscaled_bytes, prompt |-> PromptOf(entry),
     model |-> IMAGEN_MODEL_NAME, upscale_factor |-> upscale_factor,
     aspect_ratio |-> AspectOf(entry), source_image_id |-> n]

\* Lines 799-807: the entry of an upscaled image
UpscaledEntry(n, upscaled_bytes, entry, upscale_factor) ==
    [id |-> n, image_bytes |-> upscaled_bytes, prompt |-> PromptOf(entry),
     model |-> IMAGEN_MODEL_NAME, upscale_factor |-> upscale_factor,
     aspect_ratio |-> AspectOf(entry), source_image_id |-> IdOf(entry)]

\* An insertion that puts the entry at the end of the list.
InsertFront_AtEnd(h, e) == Append(h, e)

\* history.insert(0, entry)
InsertFront(h, e) == <<e>> \o h

\* What the upscale service answers: an exception, or bytes (possibly none).
UpscaleAnswers ==
    {[fail |-> TRUE, bytes |-> <<>>], [fail |-> FALSE, bytes |-> <<>>],
     [fail |-> FALSE, bytes |-> <<85, 80>>]}

Rejected == [raised |-> TRUE, called |-> FALSE, bytes |-> <<>>]

CallUpscaleService(answer) ==
    [raised |-> answer.fail, called |-> TRUE, bytes |-> answer.bytes]

\* An upscale_image_with_imagen without the check of the factor.
UpscaleImageWithImagen_AnyFactor(img_bytes, project_id, region, upscale_factor, answer) ==
    IF img_bytes = <<>> THEN Rejected
    ELSE IF project_id = "" \/ region = "" THEN Rejected
    ELSE CallUpscaleService(answer)

\* upscale_image_with_imagen: three checks that raise ValueError, then the
\* call of the service (lines 448-452), which answers or raises.
UpscaleImageWithImagen(img_bytes, project_id, region, upscale_factor, answer) ==
    IF img_bytes = <<>> THEN Rejected
    ELSE IF upscale_factor \notin {"x2", "x4"} THEN Rejected
    ELSE IF project_id = "" \/ region = "" THEN Rejected
    ELSE CallUpscaleService(answer)

\* What the storage client does once it is reached.
ClientAnswers == {"stored", "client_error"}

\* An upload_image_to_gcs that lets the storage client's exception escape.
UploadImageToGcs_Escapes(image_bytes, cfg, client) ==
    IF image_bytes = <<>> THEN [path |-> "", called |-> FALSE, raised |-> FALSE, report |-> <<>>]
    ELSE IF cfg.storage = "missing"
    THEN [path |-> "", called |-> FALSE, raised |-> FALSE, report |-> <<"gcs_settings_missing">>]
    ELSE IF cfg.storage = "bad_json"
    THEN [path |-> "", called |-> FALSE, raised |-> FALSE, report |-> <<"gcs_bad_json">>]
    ELSE IF client = "client_error"
    THEN [path |-> "", called |-> TRUE, raised |-> TRUE, report |-> <<>>]
    ELSE [path |-> "gs://bucket/images/x.png", called |-> TRUE, raised |-> FALSE, report |-> <<>>]

\* upload_image_to_gcs: the storage path, or "" (None) with a warning or an
\* error shown; no exception leaves it.
UploadImageToGcs(image_bytes, cfg, client) ==
    IF image_bytes = <<>> THEN [path |-> "", called |-> FALSE, raised |-> FALSE, report |-> <<>>]
    ELSE IF cfg.storage = "missing"
    THEN [path |-> "", called |-> FALSE, raised |-> FALSE, report |-> <<"gcs_settings_missing">>]
    ELSE IF cfg.storage = "bad_json"
    THEN [path |-> "", called |-> FALSE, raised |-> FALSE, report |-> <<"gcs_bad_json">>]
    ELSE IF client = "client_error"
    THEN [path |-> "", called |-> TRUE, raised |-> FALSE, report |-> <<"gcs_upload_failed">>]
    ELSE [path |-> "gs://bucket/images/x.png", called |-> TRUE, raised |-> FALSE, report |-> <<>>]

\* The part of the session a handler works on.
Sess(h, n, c, op) ==
    [history |-> h, nextId |-> n, calls |-> c, op |-> op,
     stopped |-> FALSE,    \* st.stop() was called
     raised |-> FALSE]     \* an exception left the handler

Say(S, message) == [S EXCEPT !.op.reports = Append(@, message)]
SayAll(S, messages) == [S EXCEPT !.op.reports = @ \o messages]
Called(S, service, made) ==
    IF made THEN [S EXCEPT !.calls[service] = @ + 1] ELSE S

\* Lines 792-809 of handle_upscale: upload, insert, report
StoreUpscaled(S, cfg, entry, upscale_factor, upscaled_bytes, up) ==
    IF up.raised THEN [Called(S, "upload", up.called) EXCEPT !.raised = TRUE]
    ELSE Say([SayAll(Called(S, "upload", up.called), up.report) EXCEPT
                 !.history = InsertFront(@, UpscaledEntry(S.nextId, upscaled_bytes,
                                                          entry, upscale_factor)),
                 !.nextId = @ + 1],
             "upscaled")

\* A handle_upscale that stores whatever the service answered, bytes or none.
AfterUpscaleCall_AnyResult(S, cfg, entry, upscale_factor, r, client) ==
    IF r.raised THEN Say(Called(S, "upscale", r.called), "upscale_failed")
    ELSE StoreUpscaled(Called(S, "upscale", r.called), cfg, entry, upscale_factor,
                       r.bytes, UploadImageToGcs(r.bytes, cfg, client))

\* Lines 775-790 of handle_upscale: the outcome r of upscale_image_with_imagen
AfterUpscaleCall(S, cfg, entry, upscale_factor, r, client) ==
    IF r.raised THEN Say(Called(S, "upscale", r.called), "upscale_failed")
    ELSE IF r.bytes = <<>> THEN Say(Called(S, "upscale", r.called), "no_upscale_result")
    ELSE StoreUpscaled(Called(S, "upscale", r.called), cfg, entry, upscale_factor,
                       r.bytes, UploadImageToGcs(r.bytes, cfg, client))

\* handle_upscale
HandleUpscale(S, cfg, entry, upscale_factor, answer, client) ==
    IF ImageBytesOf(entry) = <<>>
    THEN Say([S EXCEPT !.op.request = [bytes |-> <<>>, factor |-> upscale_factor]],
             "no_image_data")
    ELSE IF cfg.project_id = "" \/ cfg.region = ""
    THEN Say([S EXCEPT !.op.request = [bytes |-> ImageBytesOf(entry),
                                       factor |-> upscale_factor]],
             "vertex_settings_missing")
    ELSE AfterUpscaleCall(
             [S EXCEPT !.op.request = [bytes |-> ImageBytesOf(entry),
                                       factor |-> upscale_factor]],
             cfg, entry, upscale_factor,
             UpscaleImageWithImagen(ImageBytesOf(entry), cfg.project_id, cfg.region,
                                    upscale_factor, answer),
             client)

\* Line 822-824 of render_history: the identifier of the entry, drawn and
\* stored when the entry has none.
WithId(e, n) == [k \in DOMAIN e \cup {"id"} |-> IF k = "id" THEN n ELSE e[k]]

Backfill(S, i) ==
    IF IdOf(S.history[i]) # 0 THEN S
    ELSE [S EXCEPT !.history[i] = WithId(@, S.nextId), !.nextId = @ + 1]

\* An exception that leaves the handler ends the run.
Abort(S, exception) == [Say(S, exception) EXCEPT !.raised = TRUE]

\* st.stop()
Stop(S) == [S EXCEPT !.stopped = TRUE]

\* A button of render_history: Streamlit refuses a key used twice in a run;
\* the button that was clicked runs handle_upscale on the entry.
Button(S, cfg, used, click, key, entry, answer, client) ==
    IF \E j \in 1..Len(used) : used[j] = key THEN Abort(S, "DuplicateWidgetID")
    ELSE IF click = key THEN HandleUpscale(S, cfg, entry, key[1], answer, client)
    ELSE S

Rendered(S, used, local_id) == [S |-> S, keys |-> used, image_id |-> local_id]

\* Lines 848-850: the second button, unless the first one raised.  The keys
\* are recorded as the code emits them, a refused one included.
SecondButton(S, cfg, used, click, id, entry, answer, client) ==
    IF S.raised THEN Rendered(S, Append(used, <<"x2", id>>), id)
    ELSE Rendered(Button(S, cfg, Append(used, <<"x2", id>>), click, <<"x4", id>>,
                         entry, answer, client),
                  used \o <<<<"x2", id>>, <<"x4", id>>>>, id)

\* Lines 846-850: the two buttons of the entry; image_id is unbound when no
\* entry with image bytes has been rendered before.
Buttons(S, cfg, used, click, id, entry, answer, client) ==
    IF id = 0 THEN Rendered(Abort(S, "UnboundLocalError"), used, id)
    ELSE SecondButton(Button(S, cfg, used, click, <<"x2", id>>, entry, answer, client),
                      cfg, used, click, id, entry, answer, client)

\* The body of the loop of render_history for the entry at index i (from 1)
RenderBody(S, cfg, i, local_id, used, click, answer, client) ==
    IF ImageBytesOf(S.history[i]) = <<>>
    THEN Buttons(S, cfg, used, click, local_id, S.history[i], answer, client)
    ELSE Buttons(Backfill(S, i), cfg, used, click, IdOf(Backfill(S, i).history[i]),
                 Backfill(S, i).history[i], answer, client)

\* What the generation service does: an exception, or a response.
Quota == "ResourceExhausted"
ApiError == "GoogleAPICallError"
Unexpected == "Exception"
Answer(error, g) == [error |-> error, response |-> g]

EmptyMapping == Graph(<<DictC(<<>>)>>, Ref(1))

\* The responses the service answers with in the session.
Responses ==
    {InlineGraph("obj", BytesV(P1)), InlineGraph("dict", StrV(B64Encode(P1))),
     EmptyMapping, Graph(<<>>, StrV(TextProse))}

GenerateAnswers ==
    {Answer(e, EmptyMapping) : e \in {Quota, ApiError, Unexpected}}
    \cup {Answer("", g) : g \in Responses}

\* collect_image_bytes on each of these responses
Collected == [g \in Responses |-> CollectImageBytes(g)]

SayUnlessRaised(S, message) == IF S.raised THEN S ELSE Say(S, message)

\* Lines 950-952 of main
AfterInsert(S, cfg, upscale_choice, answer, client) ==
    IF upscale_choice \in {"x2", "x4"}
    THEN SayUnlessRaised(HandleUpscale(S, cfg, S.history[1], upscale_choice,
                                       answer, client),
                         "generated")
    ELSE Say(S, "generated")

\* Lines 934-949 of main: up is the outcome of upload_image_to_gcs
AfterUpload(S, cfg, image_bytes, user_prompt, aspect_ratio, ref_used, up, upscale_choice, answer, client) ==
    IF up.raised THEN Abort(Called(S, "upload", up.called), "Exception")
    ELSE AfterInsert(
             [SayAll(Called(S, "upload", up.called), up.report) EXCEPT
                 !.history = InsertFront(@, GeneratedEntry(S.nextId, image_bytes,
                                            user_prompt, aspect_ratio, ref_used)),
                 !.nextId = @ + 1,
                 !.op.upload = IF up.path # "" THEN "stored" ELSE "failed"],
             cfg, upscale_choice, answer, client)

\* Lines 929-936 of main: x is the finished call of collect_image_bytes
AfterCollect(S, cfg, x, prompt, aspect_ratio, ref_used, upscale_choice, answer, client) ==
    IF x.status = "raised" THEN Abort(S, "Exception")
    ELSE IF ~IsBinary(x.result) \/ x.result.val = <<>>
    THEN Stop(Say(S, "no_image_returned"))
    ELSE AfterUpload([S EXCEPT !.op.extracted = x.result.val], cfg, x.result.val,
                     Strip(prompt), aspect_ratio, ref_used,
                     UploadImageToGcs(x.result.val, cfg, client),
                     upscale_choice, answer, client)

\* A Generate branch that calls the service a second time when it fails.
GenerateBranch_Retry(S, cfg, prompt, aspect_ratio, ref_used, upscale_choice, generated, answer, client) ==
    IF cfg.api_key = "" THEN Stop(Say(S, "no_api_key"))
    ELSE IF Strip(prompt) = <<>> THEN Stop(Say(S, "no_prompt"))
    ELSE IF generated.error # ""
    THEN Stop(Say(Called(Called(S, "generate", TRUE), "generate", TRUE),
                  generated.error))
    ELSE AfterCollect(Called(S, "generate", TRUE), cfg,
                      Collected[generated.response], prompt, aspect_ratio,
                      ref_used, upscale_choice, answer, client)

\* Lines 880-952 of main: the branch of the Generate button
GenerateBranch(S, cfg, prompt, aspect_ratio, ref_used, upscale_choice, generated, answer, client) ==
    IF cfg.api_key = "" THEN Stop(Say(S, "no_api_key"))
    ELSE IF Strip(prompt) = <<>> THEN Stop(Say(S, "no_prompt"))
    ELSE IF generated.error # ""
    THEN Stop(Say(Called(S, "generate", TRUE), generated.error))
    ELSE AfterCollect(Called(S, "generate", TRUE), cfg,
                      Collected[generated.response], prompt, aspect_ratio,
                      ref_used, upscale_choice, answer, client)

----------------------------------------------------------------------------
(* The extractor, one loop pass per step *)

ExtractState ==
    [queue |-> queue, visited |-> visited, status |-> status, result |-> result,
     qdepth |-> qdepth, curDepth |-> curDepth, foundDepth |-> foundDepth,
     expanded |-> expanded, textLog |-> textLog, popped |-> popped]

SetExtract(s) ==
    /\ queue' = s.queue
    /\ visited' = s.visited
    /\ status' = s.status
    /\ result' = s.result
    /\ qdepth' = s.qdepth
    /\ curDepth' = s.curDepth
    /\ foundDepth' = s.foundDepth
    /\ expanded' = s.expanded
    /\ textLog' = s.textLog
    /\ popped' = s.popped

\* A call of collect_image_bytes on the response g, before its first pass.
CallOn(g) ==
    /\ heap = g.heap
    /\ response = g.response
    /\ queue = StartState(g.heap, g.response).queue
    /\ visited = {}
    /\ status = "running"
    /\ result = NoneV
    /\ qdepth = StartState(g.heap, g.response).qdepth
    /\ curDepth = 0
    /\ foundDepth = 0
    /\ expanded = [n \in 1..Len(g.heap) |-> 0]
    /\ textLog = {}
    /\ popped = 0

InitExtract ==
    /\ \/ \E g \in LeafGraphs : CallOn(g)
       \/ \E g \in PairGraphs : CallOn(g)
       \/ \E g \in ChainGraphs : CallOn(g)
       \/ \E g \in SiblingGraphs : CallOn(g)
       \/ \E g \in CyclicGraphs : CallOn(g)
       \/ \E g \in SelfGraphs : CallOn(g)
       \/ \E g \in InlineGraphs : CallOn(g)
    /\ SessionAtRest

Current == queue[PopAt(queue)]

Pass(branch) ==
    /\ status = "running"
    /\ queue # <<>>
    /\ branch
    /\ SetExtract(Iteration(heap, ExtractState))
    /\ UNCHANGED <<heap, response, sessionVars>>

\* line 270
SkipNone == Pass(Current.kind = "none")
\* lines 273-282
TakeBinary == Pass(IsBinary(Current))
\* lines 284-290
TakeText == Pass(Current.kind = "str")
\* lines 292-294
SkipVisited == Pass(Current.kind = "ref" /\ AlreadyVisited(visited, Current.id))
\* lines 297-313
ExpandMapping ==
    Pass(Current.kind = "ref" /\ ~AlreadyVisited(visited, Current.id)
         /\ IsDict(heap, Current))
\* lines 315-340
ExpandRecord ==
    Pass(\/ Current.kind = "int"
         \/ Current.kind = "ref" /\ ~AlreadyVisited(visited, Current.id)
            /\ ~IsDict(heap, Current))
\* line 342
NotFound ==
    /\ status = "running"
    /\ queue = <<>>
    /\ SetExtract(Iteration(heap, ExtractState))
    /\ UNCHANGED <<heap, response, sessionVars>>

NextExtract ==
    \/ SkipNone \/ TakeBinary \/ TakeText \/ SkipVisited
    \/ ExpandMapping \/ ExpandRecord \/ NotFound

SpecExtract == InitExtract /\ [][NextExtract]_vars

----------------------------------------------------------------------------
(* The session, one script run or one pass of the history loop per step *)

IMAGE_ASPECT_RATIO_OPTIONS == <<"16:9", "9:16", "1:1">>

\* No call of collect_image_bytes is in progress.
ExtractAtRest == CallOn(Graph(<<>>, NoneV))

\* The deployments the session is run in.
Deployments ==
    {c \in Configs : c.api_key = "key" /\ c.credentials[1] = "mezamashi"}
    \cup {c \in Configs : /\ c.project_id = "proj" /\ c.region = "us-central1"
                          /\ c.storage = "ok" /\ c.api_key = ""}
    \cup {c \in Configs : /\ c.project_id = "proj" /\ c.region = "us-central1"
                          /\ c.storage = "ok" /\ c.credentials[1] = "admin"}

\* What the user types and picks.
LoginInputs == {"", "mezamashi", "admin", "s3cret"}
Prompts == {<<32, 10>>, <<32, 99, 97, 116, 10>>}
AspectRatios == {IMAGE_ASPECT_RATIO_OPTIONS[1], IMAGE_ASPECT_RATIO_OPTIONS[3]}
UpscaleChoices == {"none", "x2", "x4"}

\* The answers of a service that matter: all of them when the service can be
\* reached in this step, one otherwise.
IfReached(reached, answers) ==
    IF reached THEN answers ELSE {CHOOSE a \in answers : TRUE}

VertexReady(cfg) == cfg.project_id # "" /\ cfg.region # ""

InitSession ==
    /\ ExtractAtRest
    /\ config \in Deployments
    /\ authenticated = FALSE
    /\ history = <<>>
    /\ pc = "idle"
    /\ cursor = 0
    /\ imageId = 0
    /\ clicked = NoKey
    /\ keys = <<>>
    /\ nextId = 1
    /\ calls = NoCalls
    /\ lastOp = NoOp

SetSession(S) ==
    /\ history' = S.history
    /\ nextId' = S.nextId
    /\ calls' = S.calls
    /\ lastOp' = S.op

StartOf(kind) == Sess(history, nextId, NoCalls, Op(kind, <<>>, NoRequest, <<>>, "none"))

\* A comparison that looks at the ID only.
CredentialsMatch_IdOnly(input_username, input_password, configured) ==
    input_username = configured[1]

\* Line 170 of require_login
CredentialsMatch(input_username, input_password, configured) ==
    input_username = configured[1] /\ input_password = configured[2]

\* require_login in a run of a session that is not authenticated: the form
\* is shown, and submitted or not; the run ends there (st.stop, or the rerun
\* that follows a login).
Login ==
    /\ pc = "idle"
    /\ ~authenticated
    /\ \E u \in LoginInputs, p \in LoginInputs, submitted \in BOOLEAN :
        /\ authenticated' = (submitted /\ CredentialsMatch(u, p, config.credentials))
        /\ lastOp' = Op("login",
                        IF ~submitted THEN <<>>
                        ELSE IF CredentialsMatch(u, p, config.credentials)
                        THEN <<"logged_in">> ELSE <<"bad_credentials">>,
                        [username |-> u, password |-> p, submitted |-> submitted],
                        <<>>, "none")
    /\ calls' = NoCalls
    /\ UNCHANGED <<extractVars, config, history, pc, cursor, imageId, clicked, keys,
                   nextId>>

\* The end of the part of main before render_history
EndMain(S, click) ==
    /\ SetSession(S)
    /\ pc' = IF S.stopped \/ S.raised THEN "idle" ELSE "render"
    /\ cursor' = 0
    /\ imageId' = 0
    /\ keys' = <<>>
    /\ clicked' = click
    /\ UNCHANGED <<extractVars, config, authenticated>>

\* A run of main with the Generate button clicked
Generate ==
    /\ pc = "idle"
    /\ authenticated
    /\ \E prompt \in Prompts, aspect_ratio \in AspectRatios, ref_used \in BOOLEAN,
          upscale_choice \in UpscaleChoices :
        /\ Len(history) + (IF upscale_choice = "none" THEN 1 ELSE 2) <= MaxHistory
        /\ \E generated \in GenerateAnswers,
              answer \in IfReached(upscale_choice # "none" /\ VertexReady(config),
                                   UpscaleAnswers),
              client \in IfReached(config.storage = "ok", ClientAnswers) :
            EndMain(GenerateBranch(StartOf("generate"), config, prompt, aspect_ratio,
                                   ref_used, upscale_choice, generated, answer, client),
                    NoKey)

\* The keys of the buttons on the page
ButtonKeys(h) == {<<f, IdOf(h[i])>> : f \in {"x2", "x4"}, i \in 1..Len(h)}

\* A run of main without the Generate button: another widget was used, or
\* one of the upscale buttons of the page was clicked.
Rerun ==
    /\ pc = "idle"
    /\ authenticated
    /\ \E click \in {NoKey} \cup ButtonKeys(history) :
        /\ click # NoKey => Len(history) < MaxHistory
        /\ EndMain(StartOf("rerun"), click)

\* The end of one pass of the loop of render_history
EndPass(R) ==
    /\ SetSession(R.S)
    /\ keys' = R.keys
    /\ imageId' = R.image_id
    /\ pc' = IF R.S.raised THEN "idle" ELSE "render"
    /\ cursor' = IF R.S.raised THEN cursor ELSE cursor + 1
    /\ UNCHANGED <<extractVars, config, authenticated, clicked>>

\* One pass of the loop of render_history: the list iterator yields the
\* entry at its position in the list as it is now.
RenderEntry ==
    /\ pc = "render"
    /\ cursor < Len(history)
    /\ \E answer \in IfReached(clicked # NoKey /\ VertexReady(config), UpscaleAnswers),
          client \in IfReached(clicked # NoKey /\ config.storage = "ok", ClientAnswers) :
        EndPass(RenderBody(Sess(history, nextId, calls,
                                Op("render", <<>>, NoRequest, <<>>, "none")),
                           config, cursor + 1, imageId, keys, clicked, answer, client))

\* The list iterator is exhausted (at once when the history is empty)
RenderDone ==
    /\ pc = "render"
    /\ cursor >= Len(history)
    /\ pc' = "idle"
    /\ lastOp' = Op("rendered", <<>>, NoRequest, <<>>, "none")
    /\ UNCHANGED <<extractVars, config, authenticated, history, cursor, imageId,
                   clicked, keys, nextId, calls>>

NextSession == Login \/ Generate \/ Rerun \/ RenderEntry \/ RenderDone

SpecSession == InitSession /\ [][NextSession]_vars

\* handle_upscale called on its own, with any entry and any factor
SampleEntries ==
    {GeneratedEntry(1, P1, <<99, 97, 116>>, "1:1", FALSE),
     GeneratedEntry(1, <<>>, <<99, 97, 116>>, "1:1", FALSE),
     [id |-> 1, prompt |-> <<99, 97, 116>>]}

Factors == {"x2", "x3", "x4"}

InitUpscale ==
    /\ ExtractAtRest
    /\ config \in Deployments
    /\ authenticated = TRUE
    /\ history = <<>>
    /\ pc = "idle"
    /\ cursor = 0
    /\ imageId = 0
    /\ clicked = NoKey
    /\ keys = <<>>
    /\ nextId = 2
    /\ calls = NoCalls
    /\ lastOp = NoOp

EndCall(S) ==
    /\ SetSession(S)
    /\ UNCHANGED <<extractVars, config, authenticated, pc, cursor, imageId, clicked,
                   keys>>

CallHandleUpscale ==
    /\ Len(history) < MaxHistory
    /\ \E entry \in SampleEntries \cup {history[i] : i \in 1..Len(history)},
          upscale_factor \in Factors, answer \in UpscaleAnswers,
          client \in ClientAnswers :
        EndCall(HandleUpscale(StartOf("upscale"), config, entry, upscale_factor,
                              answer, client))

NextUpscale == CallHandleUpscale

SpecUpscale == InitUpscale /\ [][NextUpscale]_vars

----------------------------------------------------------------------------
(* The response graph seen from outside the search *)

\* Everything a container holds, under any key or attribute.
AllChildren(h, v) ==
    IF v.kind = "ref" THEN {h[v.id].items[i].value : i \in 1..Len(h[v.id].items)}
    ELSE {}

\* What the search puts on its work list when it expands v.
FollowedChildren(h, v) ==
    IF v.kind # "ref" THEN {}
    ELSE IF h[v.id].kind = "obj"
    THEN {GetAttr(h, v, ContainerAttrs[i]) : i \in 1..Len(ContainerAttrs)} \ {NoneV}
    ELSE {h[v.id].items[i].value : i \in 1..Len(h[v.id].items)}

\* The values k hops below the response, over all edges / over followed edges.
RECURSIVE LevelAll(_, _, _)
LevelAll(h, resp, k) ==
    IF k = 0 THEN {resp}
    ELSE UNION {AllChildren(h, v) : v \in LevelAll(h, resp, k - 1)}

RECURSIVE LevelFollowed(_, _, _)
LevelFollowed(h, resp, k) ==
    IF k = 0 THEN {resp}
    ELSE UNION {FollowedChildren(h, v) : v \in LevelFollowed(h, resp, k - 1)}

NonEmptyBytes(d) == d.kind = "bytes" /\ d.val # <<>>

\* A value the loop returns a payload for when it pops it.
QueuePayload(v) ==
    \/ IsBinary(v) /\ v.val # <<>>
    \/ /\ v.kind = "str"
       /\ LooksLikeBase64(Strip(v.val))
       /\ NonEmptyBytes(DecodeImageData(StrV(Strip(v.val))))

\* A value that holds image data under some reading: binary data, or text
\* that base64-decodes to something.
ImageLeaf(v) ==
    \/ IsBinary(v) /\ v.val # <<>>
    \/ v.kind = "str" /\ ~B64Decode(v.val).err /\ B64Decode(v.val).bytes # <<>>

HasImageLeaf(h, resp) ==
    \/ ImageLeaf(resp)
    \/ \E n \in 1..Len(h) : \E i \in 1..Len(h[n].items) : ImageLeaf(h[n].items[i].value)

Finished == status # "running"
Found == status = "returned" /\ result # NoneV

----------------------------------------------------------------------------
(* Claims about collect_image_bytes *)

\* The number of values the containers of the graph hold.
RECURSIVE SlotsUpTo(_, _)
SlotsUpTo(h, n) == IF n = 0 THEN 0 ELSE Len(h[n].items) + SlotsUpTo(h, n - 1)

\* C1: the call terminates on every response graph, cyclic ones included.
\* No container is expanded more than once, so the items ever put on the
\* work list (those popped and those waiting) are at most the response and
\* one per slot of the graph.  Every pass of the loop pops one of them, so
\* the loop runs out of items after at most that many passes.
C1_Terminates ==
    /\ \A n \in 1..Len(heap) : expanded[n] <= 1
    /\ popped + Len(queue) <= 1 + SlotsUpTo(heap, Len(heap))
    /\ status # "raised"

\* A container that holds itself was expanded, met again and skipped, and
\* the call returned.
C1_Witness ==
    /\ status = "returned"
    /\ \E n \in 1..Len(heap) :
          /\ Ref(n) \in AllChildren(heap, Ref(n))
          /\ expanded[n] = 1
    /\ popped > Len(heap)

\* C2: a response without any image-bearing value makes the call return
\* None, and no exception escapes.
C2_NotFoundIsNone ==
    ~HasImageLeaf(heap, response) =>
        /\ status # "raised"
        /\ status = "returned" => result = NoneV

\* A container without image data (it holds text that only looks like
\* base64) was searched to the end.
C2_Witness ==
    /\ ~HasImageLeaf(heap, response)
    /\ status = "returned"
    /\ result = NoneV
    /\ \E e \in textLog : e.tried
    /\ popped >= 2

\* C3 as stated: the returned payload is at least as shallow as every
\* payload of the response graph.
C3_ShallowestPayload ==
    Found =>
        \A k \in 0..(foundDepth - 1) :
            \A v \in LevelAll(heap, response, k) : ~QueuePayload(v)

\* C3, amended: the work list is processed breadth first, so when a payload
\* is returned while the item at depth d is processed, nothing the loop
\* would have returned lies on the followed edges at a depth below d; the
\* payload itself lies at most two hops below that item.
C3_BreadthFirstItems ==
    Found =>
        /\ foundDepth <= curDepth + 2
        /\ \A k \in 0..(curDepth - 1) :
              \A v \in LevelFollowed(heap, response, k) : ~QueuePayload(v)

\* A payload two hops below the processed item was returned although
\* another payload lies nearer to the response.
C3_Witness ==
    /\ Found
    /\ foundDepth = curDepth + 2
    /\ \E k \in 0..(foundDepth - 1) :
          \E v \in LevelAll(heap, response, k) : QueuePayload(v)

ValidBase64(cand) ==
    /\ \A i \in 1..Len(cand) : InBase64Charset(cand[i])
    /\ ~B64Decode(cand).err
    /\ B64Decode(cand).bytes # <<>>

Returned(cand) == status = "returned" /\ result = BytesV(B64Decode(cand).bytes)

\* C4 as stated: text of exactly 80 characters of valid base64 is decoded
\* and returned, text of 79 characters is not tried.
C4_Exactly80Decoded ==
    \A e \in textLog :
        /\ Len(e.cand) = Base64MinLen /\ ValidBase64(e.cand) => e.tried /\ Returned(e.cand)
        /\ Len(e.cand) = Base64MinLen - 1 => ~e.tried

\* C4, amended: text of more than 80 characters of valid base64 is decoded
\* and returned; text of 80 characters or fewer is never tried.
C4_Over80Decoded ==
    \A e \in textLog :
        /\ Len(e.cand) > Base64MinLen /\ ValidBase64(e.cand) => e.tried /\ Returned(e.cand)
        /\ Len(e.cand) <= Base64MinLen => ~e.tried

\* Text of 80 characters was passed over and text of 81 was returned, in
\* one call.
C4_Witness ==
    \E e, f \in textLog :
        /\ Len(e.cand) = Base64MinLen /\ ValidBase64(e.cand) /\ ~e.tried
        /\ Len(f.cand) = Base64MinLen + 1 /\ f.tried /\ Returned(f.cand)

\* C5: text that looks like base64 and fails to decode is dropped: no
\* exception escapes, and the call ends only with a payload or with the
\* work list exhausted.
C5_BrokenTextDropped ==
    /\ status # "raised"
    /\ \A e \in textLog :
          e.tried /\ B64Decode(e.cand).err =>
              \/ status = "running"
              \/ status = "returned" /\ (result # NoneV \/ queue = <<>>)

\* Broken text was dropped and a payload met after it was returned.
C5_Witness ==
    /\ \E e \in textLog : e.tried /\ B64Decode(e.cand).err
    /\ status = "returned"
    /\ NonEmptyBytes(result)

\* The data member of a candidates -> content -> parts -> inline_data response.
InlineData == heap[7].items[1].value

IsInlineResponse ==
    /\ Len(heap) >= 7
    /\ response = Ref(1)
    /\ \E form \in {"dict", "obj"} : heap = InlineGraph(form, InlineData).heap

\* C6: for a response of shape candidates -> content -> parts -> inline_data
\* whose data is the base64 text of b, the call returns exactly b.
C6_RoundTrip ==
    IsInlineResponse /\ Finished =>
        \A b \in SampleBytes :
            InlineData = StrV(B64Encode(b)) => status = "returned" /\ result = BytesV(b)

\* The bytes 255, 0, 65, 255 came back from their base64 text.
C6_Witness ==
    /\ IsInlineResponse
    /\ InlineData = StrV(B64Encode(<<255, 0, 65, 255>>))
    /\ status = "returned"
    /\ result = BytesV(<<255, 0, 65, 255>>)

Absent(v) == v = NoneV \/ (v.kind \in {"bytes", "bytearray", "str"} /\ v.val = <<>>)

\* C7: empty binary values, empty text and None are never returned and never
\* end the search: a returned payload is non-empty, None is returned only
\* with the work list exhausted, and then no payload was left on the
\* followed edges.
C7_EmptyIsAbsent ==
    /\ status # "raised"
    /\ status = "returned" =>
          \/ NonEmptyBytes(result)
          \/ /\ result = NoneV
             /\ queue = <<>>
             /\ \A k \in 0..Len(heap) :
                   \A v \in LevelFollowed(heap, response, k) : ~QueuePayload(v)

\* An absent value was popped first and the payload queued after it was
\* returned.
C7_Witness ==
    /\ response = Ref(1)
    /\ Len(heap[1].items) = 2
    /\ Absent(heap[1].items[1].value)
    /\ status = "returned"
    /\ result = BytesV(P1)
    /\ curDepth = 1
    /\ popped = 3

----------------------------------------------------------------------------
(* Upscale requests, uploads and the history *)

PreconditionFails(request, cfg) ==
    \/ request.bytes = <<>>
    \/ ~VertexReady(cfg)
    \/ request.factor \notin {"x2", "x4"}

\* C8: a call of handle_upscale whose preconditions fail (no source bytes,
\* no project id or region, a factor other than x2 and x4) shows a message,
\* calls neither the upscale service nor the storage service, and leaves
\* the history as it was.
C8_RejectedBeforeCall ==
    [][(lastOp'.op = "upscale" /\ PreconditionFails(lastOp'.request, config))
         => /\ calls'.upscale = 0
            /\ calls'.upload = 0
            /\ history' = history
            /\ lastOp'.reports \in {<<"no_image_data">>, <<"vertex_settings_missing">>,
                                    <<"upscale_failed">>}]_vars

\* A request with factor x3 on an entry with bytes, in a deployment with
\* project and region, was rejected.
C8_Witness ==
    /\ lastOp.op = "upscale"
    /\ lastOp.request.factor = "x3"
    /\ lastOp.request.bytes # <<>>
    /\ VertexReady(config)
    /\ lastOp.reports = <<"upscale_failed">>
    /\ calls.upscale = 0
    /\ Len(history) > 0

GeneratedKeys ==
    {"id", "image_bytes", "prompt", "model", "no_text", "aspect_ratio",
     "reference_used"}

\* C9: in a run of Generate where the extractor returned bytes and the
\* upload stored nothing, the run goes on to render the history, the old
\* entries are kept, and the entry of the generated image is in front of
\* them (behind the entry of its upscale, if one was asked for and made)
\* with the extracted bytes and without any field for a storage path.
C9_UploadFailureKeepsEntry ==
    [][(lastOp'.op = "generate" /\ lastOp'.extracted # <<>>
        /\ lastOp'.upload # "stored")
         => /\ pc' = "render"
            /\ \E k \in 1..2 :
                /\ Len(history') = Len(history) + k
                /\ SubSeq(history', k + 1, Len(history')) = history
                /\ history'[k].image_bytes = lastOp'.extracted
                /\ history'[k].model = MODEL_NAME
                /\ DOMAIN history'[k] = GeneratedKeys
                /\ k = 2 => history'[1].source_image_id = history'[2].id]_vars

\* A run of Generate in which the storage client failed and the entry is
\* the first of the history.
C9_Witness ==
    /\ lastOp.op = "generate"
    /\ lastOp.upload = "failed"
    /\ \E i \in 1..Len(lastOp.reports) : lastOp.reports[i] = "gcs_upload_failed"
    /\ calls.upload = 1
    /\ Len(history) = 2
    /\ history[1].image_bytes = lastOp.extracted
    /\ pc = "render"

Count(reports, message) ==
    Cardinality({i \in 1..Len(reports) : reports[i] = message})

\* C10: every step of the session leaves the history as it was or puts new
\* entries in front of it, one for each generation and each upscale that
\* the step reports as done; the entries that were there stay, in their
\* order and with their fields.
C10_InsertAtFrontOnly ==
    [][\E k \in 0..2 :
        /\ Len(history') = Len(history) + k
        /\ SubSeq(history', k + 1, Len(history')) = history
        /\ k = Count(lastOp'.reports, "generated") + Count(lastOp'.reports, "upscaled")
        /\ \A i \in 1..k : \A j \in 1..Len(history) : history'[i].id # history[j].id]_vars

\* A pass of render_history has put an upscaled image in front of two
\* older entries.
C10_Witness ==
    /\ lastOp.op = "render"
    /\ lastOp.reports = <<"upscaled">>
    /\ Len(history) = 3
    /\ history[1].source_image_id = history[3].id

----------------------------------------------------------------------------
(* Failed generations *)

\* C11: a run of Generate that reached the generation service and got no
\* image out of it (the call raised, or the extractor found nothing) has
\* called the service once, has called neither the storage service nor the
\* upscale service, shows one error, leaves the history as it was and ends
\* before render_history.
C11_FailedGenerationAborts ==
    [][(lastOp'.op = "generate" /\ calls'.generate > 0 /\ lastOp'.extracted = <<>>)
         => /\ calls'.generate = 1
            /\ calls'.upload = 0
            /\ calls'.upscale = 0
            /\ history' = history
            /\ nextId' = nextId
            /\ pc' = "idle"
            /\ lastOp'.reports \in {<<Quota>>, <<ApiError>>, <<Unexpected>>,
                                    <<"no_image_returned">>}]_vars

\* The extractor found nothing in the response of a later Generate run.
C11_Witness ==
    /\ lastOp.op = "generate"
    /\ lastOp.reports = <<"no_image_returned">>
    /\ calls = [generate |-> 1, upscale |-> 0, upload |-> 0]
    /\ Len(history) > 0
    /\ pc = "idle"

----------------------------------------------------------------------------
(* What the search expands *)

ListedKeys ==
    {ContainerAttrs[i] : i \in 1..Len(ContainerAttrs)}
    \cup {"inline_data", "file_data"} \cup DirectKeys

\* The values of a container under the listed keys or attributes, and the
\* elements of a sequence.
ListedChildren(h, v) ==
    IF v.kind # "ref" THEN {}
    ELSE IF h[v.id].kind = "list" THEN AllChildren(h, v)
    ELSE {h[v.id].items[i].value :
            i \in {j \in 1..Len(h[v.id].items) : h[v.id].items[j].key \in ListedKeys}}

RECURSIVE ReachListed(_, _, _)
ReachListed(h, S, k) ==
    IF k = 0 THEN S
    ELSE ReachListed(h, S \cup UNION {ListedChildren(h, v) : v \in S}, k - 1)

RECURSIVE ReachFollowed(_, _, _)
ReachFollowed(h, S, k) ==
    IF k = 0 THEN S
    ELSE ReachFollowed(h, S \cup UNION {FollowedChildren(h, v) : v \in S}, k - 1)

\* The member of a mapping or record under a name, None when there is none.
ChildAt(h, v, name) ==
    IF v.kind = "ref" /\ h[v.id].kind \in {"dict", "obj"} /\ HasKey(h[v.id].items, name)
    THEN Lookup(h[v.id].items, name)
    ELSE NoneV

\* The values read ahead when v is examined: inline_data.data, file_data.data
Lookahead(h, v) ==
    {ChildAt(h, ChildAt(h, v, "inline_data"), "data"),
     ChildAt(h, ChildAt(h, v, "file_data"), "data")}

\* The bytes a value can be returned as.
PayloadsOf(v) ==
    IF IsBinary(v) THEN {BytesV(v.val)}
    ELSE IF v.kind = "str"
    THEN {DecodeImageData(v), DecodeImageData(StrV(Strip(v.val)))}
    ELSE {}

QueuedWithin(R) == \A i \in 1..Len(queue) : queue[i] \in R
ReturnedFrom(R) == Found => \E v \in R : result \in PayloadsOf(v)

PayloadsQueuedWithin(R) ==
    \A i \in 1..Len(queue) : QueuePayload(queue[i]) => queue[i] \in R

\* C12 as stated: only payloads reachable through the listed keys and
\* attributes (and sequence elements) are ever queued or returned, for
\* mappings and records alike.
C12_ListedKeysOnly ==
    /\ PayloadsQueuedWithin(ReachListed(heap, {response}, Len(heap) + 1))
    /\ ReturnedFrom(ReachListed(heap, {response}, Len(heap) + 1))

WithLookahead(h, R) == R \cup UNION {Lookahead(h, v) : v \in R}

\* C12, amended: a record is expanded through the listed attributes only,
\* a sequence through its elements, a mapping through all of its values
\* whatever their keys.  Only values reachable that way are ever queued,
\* and a returned payload is such a value or the inline_data.data or
\* file_data.data of one.
C12_RecordsByListedAttrs ==
    /\ QueuedWithin(ReachFollowed(heap, {response}, Len(heap) + 1))
    /\ ReturnedFrom(WithLookahead(heap, ReachFollowed(heap, {response}, Len(heap) + 1)))

\* The search is over on a record whose only payload is under an attribute
\* outside the list, and nothing was found.
C12_Witness ==
    /\ status = "returned"
    /\ result = NoneV
    /\ response = Ref(1)
    /\ Len(heap) = 1
    /\ heap[1].kind = "obj"
    /\ \E i \in 1..Len(heap[1].items) :
          /\ heap[1].items[i].key \in {"extra", "data", "thumbnail"}
          /\ NonEmptyBytes(heap[1].items[i].value)
    /\ popped = 1

----------------------------------------------------------------------------
(* Which texts are tried as base64 *)

Base64Alphabet == (65..90) \cup (97..122) \cup (48..57) \cup {43, 47, 61}
AsciiWhitespace == {9, 10, 11, 12, 13, 32}
LineBreaks == {10, 13}

\* A stripped text of more than 80 characters, all of them in the alphabet
\* or in the set `blank`.
LongOver(cand, blank) ==
    /\ Len(cand) > Base64MinLen
    /\ \A i \in 1..Len(cand) : cand[i] \in Base64Alphabet \cup blank

Decodable(cand) == ~B64Decode(cand).err /\ B64Decode(cand).bytes # <<>>

\* The texts the search has popped are tried exactly when they are long
\* and made of the alphabet and of `blank`, and one that decodes to
\* something ends the search with its bytes.
TriedExactly(blank) ==
    \A e \in textLog :
        /\ e.tried <=> LongOver(e.cand, blank)
        /\ LongOver(e.cand, blank) /\ Decodable(e.cand) => Returned(e.cand)

\* C13 as stated: the characters allowed beside the alphabet are the ASCII
\* whitespace characters, spaces and tabs inside the text included.
C13_AnyWhitespaceTried == TriedExactly(AsciiWhitespace)

\* C13, amended: the characters allowed beside the alphabet are the line
\* feed and the carriage return; a text with a space or a tab inside is
\* dropped without a decoding attempt, like a text with any other foreign
\* character or a text of 80 characters or fewer.
C13_LineBreaksTried == TriedExactly(LineBreaks)

\* In one call a long text with a space inside was passed over, and a long
\* text with a line feed inside was decoded and returned.
C13_Witness ==
    \E e, f \in textLog :
        /\ LongOver(e.cand, {32}) /\ ~LongOver(e.cand, {}) /\ ~e.tried
        /\ LongOver(f.cand, {10}) /\ ~LongOver(f.cand, {}) /\ f.tried
        /\ Returned(f.cand)

----------------------------------------------------------------------------
(* The pass of render_history *)

Occurrences(seq, x) == Cardinality({i \in 1..Len(seq) : seq[i] = x})

PassOver == pc = "idle" /\ lastOp.op \in {"render", "rendered"}

\* C14: in a pass of render_history no widget key is emitted twice, and
\* when the pass is over every entry of the history has been rendered
\* once: each of its two keys has been emitted exactly once.
C14_EachEntryOnce ==
    /\ \A i, j \in 1..Len(keys) : i # j => keys[i] # keys[j]
    /\ PassOver =>
          \A n \in 1..Len(history) :
              /\ Occurrences(keys, <<"x2", IdOf(history[n])>>) = 1
              /\ Occurrences(keys, <<"x4", IdOf(history[n])>>) = 1

----------------------------------------------------------------------------
(* The entries of the history *)

\* C15: every entry of the history has image bytes and an identifier, and
\* every pass of the loop of render_history leaves the identifier of the
\* entry it renders as it was and builds the two keys from it.
C15_EntriesComplete ==
    /\ [](\A n \in 1..Len(history) :
            ImageBytesOf(history[n]) # <<>> /\ IdOf(history[n]) \in 1..(nextId - 1))
    /\ [][lastOp'.op = "render" =>
            /\ imageId' = IdOf(history[cursor + 1])
            /\ Len(keys') > Len(keys)
            /\ keys'[Len(keys) + 1] = <<"x2", IdOf(history[cursor + 1])>>
            /\ Len(keys') > Len(keys) + 1 =>
                  keys'[Len(keys) + 2] = <<"x4", IdOf(history[cursor + 1])>>
            /\ \E k \in 0..1 : history'[cursor + 1 + k] = history[cursor + 1]]_vars

\* The pass has rendered the second of three entries, the first of which
\* is an upscaled image.
C15_Witness ==
    /\ pc = "render"
    /\ lastOp.op = "render"
    /\ Len(history) = 3
    /\ cursor = 2
    /\ "upscale_factor" \in DOMAIN history[1]
    /\ imageId = IdOf(history[2])
    /\ keys[3] = <<"x2", IdOf(history[2])>>

Upscaled(e) == e.model = IMAGEN_MODEL_NAME

\* C16: every entry made by an upscale has the factor x2 or x4 and names
\* as its source the identifier of an entry that is in the history behind
\* it.
C16_UpscaledHaveSource ==
    \A n \in 1..Len(history) :
        Upscaled(history[n]) =>
            /\ {"upscale_factor", "source_image_id"} \subseteq DOMAIN history[n]
            /\ history[n].upscale_factor \in {"x2", "x4"}
            /\ \E m \in (n + 1)..Len(history) :
                  IdOf(history[m]) = history[n].source_image_id

\* An upscaled image of an upscaled image of a generated image.
C16_Witness ==
    /\ Len(history) = 3
    /\ Upscaled(history[1]) /\ Upscaled(history[2]) /\ ~Upscaled(history[3])
    /\ history[1].source_image_id = history[2].id
    /\ history[2].source_image_id = history[3].id
    /\ history[1].upscale_factor = "x4"

----------------------------------------------------------------------------
(* The login gate *)

PastTheGate == {"generate", "rerun", "render", "rendered"}

\* C17: the part of main behind require_login (the form, the Generate
\* branch, upscales, render_history) runs only in an authenticated
\* session; the session becomes authenticated only by a login run in which
\* the submitted ID and PASS equal the configured ones; an authenticated
\* session stays authenticated.
C17_LoginGate ==
    /\ [](pc = "render" => authenticated)
    /\ [][lastOp'.op \in PastTheGate => authenticated /\ authenticated']_vars
    /\ [][history' # history \/ calls' # NoCalls => authenticated]_vars
    /\ [][~authenticated /\ authenticated' =>
            /\ lastOp'.op = "login"
            /\ lastOp'.request.submitted
            /\ lastOp'.request.username = config.credentials[1]
            /\ lastOp'.request.password = config.credentials[2]]_vars
    /\ [][authenticated => authenticated']_vars

\* A session whose credentials come from the secrets has logged in and
\* generated an image.
C17_Witness ==
    /\ authenticated
    /\ config.credentials = <<"admin", "s3cret">>
    /\ Len(history) = 1
    /\ pc = "render"
    /\ lastOp.op = "generate"

====
